---- MODULE Spec2Model ----
(***************************************************************************)
(* Model of com_port_autopostback.py: the idle-detecting serial loopback   *)
(* (main, lines 63-117) and its retrying writer (_write_all, lines 44-60). *)
(*                                                                         *)
(* The program is one thread; pc is the line it is about to execute.  The  *)
(* serial port is the environment: the peer appends bytes to the driver's  *)
(* input queue (Arrive), read() returns a prefix of what in_waiting        *)
(* reported, write() acknowledges a prefix of the bytes it is given or     *)
(* nothing, and every port call may raise a fatal SerialException.         *)
(*                                                                         *)
(* time.monotonic() is the variable clock, advanced by Tick at any point;  *)
(* the durations of the sleeps are not modelled beyond that.  Times are in *)
(* the unit of --idle-ms; the division by 1000.0 on both sides of the      *)
(* comparison of line 97 is left out.  The code never inspects a byte, so  *)
(* the peer's k-th byte carries the value k, which makes every loss,       *)
(* duplication or reordering visible.                                      *)
(***************************************************************************)
EXTENDS Integers, Sequences, FiniteSets, TLC

\* ---- bounds of the model ------------------------------------------------
MaxBytes == 3        \* bytes the peer sends in one run
MaxTime == 3         \* last value of the clock
MaxIdleMs == 2       \* largest --idle-ms tried
MaxAccept == 2       \* most bytes one port.write call acknowledges

\* ---- values -------------------------------------------------------------
None == -1           \* last_rx_ts = None (line 86); clock values are >= 0

IdleMsChoices == -1 .. MaxIdleMs
PollIntervalMsChoices == {-1, 0, 1}

VARIABLES
    pc,                \* the statement main/_write_all is about to execute
    idle_ms,           \* args.idle_ms
    poll_interval_ms,  \* args.poll_interval_ms
    idle_threshold,    \* line 83
    poll_sleep,        \* line 84
    rx_buffer,         \* line 85
    last_rx_ts,        \* line 86
    waiting,           \* line 89
    now,               \* line 96
    payload,           \* line 98, and _write_all's parameter
    total,             \* line 47
    raised,            \* the exception propagating, or "none"
    exit_status,       \* what the process ends with
    port,              \* "unopened", "open", "closed"
    clock,             \* time.monotonic()
    inq,               \* the driver's input queue (in_waiting = its length)
    sent,              \* bytes the peer has sent so far
    readLog,           \* every byte port.read has returned, in order
    sinceEcho,         \* the bytes port.read returned since _write_all last returned
    acked,             \* bytes port.write acknowledged in this _write_all
    writeArg,          \* argument of the latest port.write call
    flushLog,          \* value of total at each port.flush of this _write_all
    echoes             \* payloads of the "Looped back" records printed

vars == <<pc, raised, idle_ms, poll_interval_ms, idle_threshold, poll_sleep, rx_buffer,
          last_rx_ts, waiting, now, payload, total, exit_status, port, clock,
          inq, sent, readLog, sinceEcho, acked, writeArg, flushLog, echoes>>

progVars == <<idle_ms, poll_interval_ms, idle_threshold, poll_sleep, rx_buffer,
              last_rx_ts, waiting, now, payload, total>>
envVars == <<clock, inq, sent>>
logVars == <<readLog, sinceEcho, acked, writeArg, flushLog, echoes>>

\* ---- helpers ------------------------------------------------------------
Take(s, k) == SubSeq(s, 1, k)
Drop(s, k) == SubSeq(s, k + 1, Len(s))
Max(a, b) == IF a >= b THEN a ELSE b
Min(a, b) == IF a <= b THEN a ELSE b

\* max(args.idle_ms, 0.0) / 1000.0 and max(args.poll_interval_ms, 0.0) / 1000.0
IdleThreshold_Min1(ms) == Max(ms, 1)
IdleThreshold(ms) == Max(ms, 0)
PollSleep(ms) == Max(ms, 0)

\* rx_buffer.extend(data)
Extend_Replace(buf, data) == data
Extend(buf, data) == buf \o data

\* if data: ... last_rx_ts = time.monotonic()
StampAfterRead_Always(data, ts, t) == t
StampAfterRead(data, ts, t) == IF data # <<>> THEN t ELSE ts

\* the statement after the ingestion branch: the else branch is skipped
AfterIngest_FallThrough == "idle"
AfterIngest == "poll"

\* rx_buffer and last_rx_ts is not None and (now - last_rx_ts) >= idle_threshold
EchoDue_NoThreshold(buf, ts, t, thr) == buf # <<>> /\ ts # None
EchoDue_Strict(buf, ts, t, thr) == buf # <<>> /\ ts # None /\ (t - ts) > thr
EchoDue_NoEmptyGuard(buf, ts, t, thr) == (t - ts) >= thr
EchoDue_TsInverted(buf, ts, t, thr) == buf # <<>> /\ ts = None /\ (t - ts) >= thr
EchoDue(buf, ts, t, thr) == buf # <<>> /\ ts # None /\ (t - ts) >= thr

\* rx_buffer.clear()
Cleared_KeepsFirst(buf) == Take(buf, Min(1, Len(buf)))
Cleared(buf) == <<>>

\* if poll_sleep: time.sleep(poll_sleep)
AfterCycle(ps) == IF ps # 0 THEN "sleep" ELSE "poll"

\* while total < len(payload)
LoopCond_OffByOne(tot, pl) == tot < Len(pl) - 1
LoopCond(tot, pl) == tot < Len(pl)

\* view[total:]
WriteArg_Whole(view, tot) == view
WriteArg(view, tot) == Drop(view, tot)

\* total += written
NewTotal(tot, written) == tot + written

\* the statement after written == 0 and the backoff: continue
AfterBackoff_Break == "flush"
AfterBackoff_Abort == "poll"
AfterBackoff == "write"

\* what port.write gave when it acknowledged nothing: 0, None, or a
\* SerialTimeoutException, which lines 51-54 all turn into written = 0
TransientResults == {"zero", "none", "timeout"}

\* lines 51-57: the statement after a write that acknowledged nothing
AfterTransient_TimeoutFatal(r) == IF r = "timeout" THEN "close" ELSE "backoff"
AfterTransient(r) == "backoff"

\* lines 112-115: where an exception that is not a KeyboardInterrupt goes
AfterFault_NoFinally == "done"
AfterFault == "close"

\* lines 116-117 and 121: return 0, unless the exception is still propagating
ExitStatus_AlwaysSuccess(r) == "success"
ExitStatus(r) == IF r = "none" THEN "success" ELSE "exception"

LoopPcs == {"poll", "read", "idle", "settle", "write", "backoff", "flush",
            "print", "clear", "clear_ts", "sleep"}
WriteAllPcs == {"write", "backoff", "flush"}
WriteBackPcs == {"settle", "write", "backoff", "flush", "print", "clear", "clear_ts"}
StopPcs == {"interrupted", "close", "done"}

\* ---- initial state ------------------------------------------------------
Init ==
    /\ pc = "open"
    /\ idle_ms \in IdleMsChoices
    /\ poll_interval_ms \in PollIntervalMsChoices
    /\ idle_threshold = 0
    /\ poll_sleep = 0
    /\ rx_buffer = <<>>
    /\ last_rx_ts = None
    /\ waiting = 0
    /\ now = 0
    /\ payload = <<>>
    /\ total = 0
    /\ raised = "none"
    /\ exit_status = "none"
    /\ port = "unopened"
    /\ clock = 0
    /\ inq = <<>>
    /\ sent = 0
    /\ readLog = <<>>
    /\ sinceEcho = <<>>
    /\ acked = <<>>
    /\ writeArg = <<>>
    /\ flushLog = <<>>
    /\ echoes = <<>>

\* ---- main: startup ------------------------------------------------------
\* lines 66-77 succeed, then lines 82-86
Open ==
    /\ pc = "open"
    /\ port' = "open"
    /\ idle_threshold' = IdleThreshold(idle_ms)
    /\ poll_sleep' = PollSleep(poll_interval_ms)
    /\ rx_buffer' = <<>>
    /\ last_rx_ts' = None
    /\ pc' = "poll"
    /\ UNCHANGED <<idle_ms, poll_interval_ms, waiting, now, payload, total,
                   exit_status, raised>>
    /\ UNCHANGED envVars
    /\ UNCHANGED logVars

\* lines 78-80: serial.SerialException while opening, return 1
OpenFail ==
    /\ pc = "open"
    /\ pc' = "done"
    /\ exit_status' = "failure"
    /\ UNCHANGED <<port, raised>>
    /\ UNCHANGED progVars
    /\ UNCHANGED envVars
    /\ UNCHANGED logVars

\* ---- main: the poll loop ------------------------------------------------
\* line 89-90, 95: waiting = serial_port.in_waiting, and the branch on it
Poll ==
    /\ pc = "poll"
    /\ waiting' = Len(inq)
    /\ pc' = IF Len(inq) # 0 THEN "read" ELSE "idle"
    /\ UNCHANGED <<idle_ms, poll_interval_ms, idle_threshold, poll_sleep,
                   rx_buffer, last_rx_ts, now, payload, total, exit_status, raised, port>>
    /\ UNCHANGED envVars
    /\ UNCHANGED logVars

\* lines 91-94: data = serial_port.read(waiting); if data: extend and stamp
Read ==
    /\ pc = "read"
    /\ \E k \in 0 .. waiting :
          LET data == Take(inq, k) IN
          /\ inq' = Drop(inq, k)
          /\ readLog' = readLog \o data
          /\ sinceEcho' = sinceEcho \o data
          /\ rx_buffer' = IF data # <<>> THEN Extend(rx_buffer, data) ELSE rx_buffer
          /\ last_rx_ts' = StampAfterRead(data, last_rx_ts, clock)
    /\ pc' = AfterIngest
    /\ UNCHANGED <<idle_ms, poll_interval_ms, idle_threshold, poll_sleep,
                   waiting, now, payload, total, exit_status, raised, port>>
    /\ UNCHANGED <<clock, sent>>
    /\ UNCHANGED <<acked, writeArg, flushLog, echoes>>

\* lines 96-99 and 110: now = time.monotonic(); the idle test; the snapshot
IdleCheck ==
    /\ pc = "idle"
    /\ now' = clock
    /\ IF EchoDue(rx_buffer, last_rx_ts, clock, idle_threshold)
       THEN /\ payload' = rx_buffer
            /\ pc' = "settle"
       ELSE /\ payload' = payload
            /\ pc' = AfterCycle(poll_sleep)
    /\ UNCHANGED <<idle_ms, poll_interval_ms, idle_threshold, poll_sleep,
                   rx_buffer, last_rx_ts, waiting, total, exit_status, raised, port>>
    /\ UNCHANGED envVars
    /\ UNCHANGED logVars

\* lines 100-101, 46-47: time.sleep(0.01), then _write_all is entered
Settle ==
    /\ pc = "settle"
    /\ total' = 0
    /\ acked' = <<>>
    /\ writeArg' = <<>>
    /\ flushLog' = <<>>
    /\ pc' = "write"
    /\ UNCHANGED <<idle_ms, poll_interval_ms, idle_threshold, poll_sleep,
                   rx_buffer, last_rx_ts, waiting, now, payload, exit_status, raised, port>>
    /\ UNCHANGED envVars
    /\ UNCHANGED <<readLog, sinceEcho, echoes>>

\* ---- _write_all ---------------------------------------------------------
\* lines 48-50, 58: port.write(view[total:]) acknowledges 1..MaxAccept bytes
WriteAccept ==
    /\ pc = "write"
    /\ LoopCond(total, payload)
    /\ LET arg == WriteArg(payload, total) IN
       /\ writeArg' = arg
       /\ \E k \in 1 .. Min(MaxAccept, Len(arg)) :
             /\ acked' = acked \o Take(arg, k)
             /\ total' = NewTotal(total, k)
    /\ pc' = "write"
    /\ UNCHANGED <<idle_ms, poll_interval_ms, idle_threshold, poll_sleep,
                   rx_buffer, last_rx_ts, waiting, now, payload, exit_status,
                   raised, port>>
    /\ UNCHANGED envVars
    /\ UNCHANGED <<readLog, sinceEcho, flushLog, echoes>>

\* lines 48-55: port.write returns 0 or None, or raises SerialTimeoutException
WriteZero ==
    /\ pc = "write"
    /\ LoopCond(total, payload)
    /\ writeArg' = WriteArg(payload, total)
    /\ \E r \in TransientResults : pc' = AfterTransient(r)
    /\ UNCHANGED progVars
    /\ UNCHANGED <<exit_status, raised, port>>
    /\ UNCHANGED envVars
    /\ UNCHANGED <<readLog, sinceEcho, acked, flushLog, echoes>>

\* lines 56-57: time.sleep(0.001); continue
Backoff ==
    /\ pc = "backoff"
    /\ pc' = AfterBackoff
    /\ UNCHANGED progVars
    /\ UNCHANGED <<exit_status, raised, port>>
    /\ UNCHANGED envVars
    /\ UNCHANGED logVars

\* line 48: the loop condition is false
WriteDone ==
    /\ pc = "write"
    /\ ~LoopCond(total, payload)
    /\ pc' = "flush"
    /\ UNCHANGED progVars
    /\ UNCHANGED <<exit_status, raised, port>>
    /\ UNCHANGED envVars
    /\ UNCHANGED logVars

\* lines 59-60: port.flush(); return total
Flush ==
    /\ pc = "flush"
    /\ flushLog' = Append(flushLog, total)
    /\ sinceEcho' = <<>>
    /\ pc' = "print"
    /\ UNCHANGED progVars
    /\ UNCHANGED <<exit_status, raised, port>>
    /\ UNCHANGED envVars
    /\ UNCHANGED <<readLog, acked, writeArg, echoes>>

\* ---- main: after the write-back -----------------------------------------
\* lines 102-106: the "Looped back" record
PrintEcho ==
    /\ pc = "print"
    /\ echoes' = Append(echoes, payload)
    /\ pc' = "clear"
    /\ UNCHANGED progVars
    /\ UNCHANGED <<exit_status, raised, port>>
    /\ UNCHANGED envVars
    /\ UNCHANGED <<readLog, sinceEcho, acked, writeArg, flushLog>>

\* line 107: rx_buffer.clear()
ClearBuffer ==
    /\ pc = "clear"
    /\ rx_buffer' = Cleared(rx_buffer)
    /\ pc' = "clear_ts"
    /\ UNCHANGED <<idle_ms, poll_interval_ms, idle_threshold, poll_sleep,
                   last_rx_ts, waiting, now, payload, total, exit_status,
                   raised, port>>
    /\ UNCHANGED envVars
    /\ UNCHANGED logVars

\* lines 108, 110: last_rx_ts = None, then the poll sleep if there is one
ClearTimestamp ==
    /\ pc = "clear_ts"
    /\ last_rx_ts' = None
    /\ pc' = AfterCycle(poll_sleep)
    /\ UNCHANGED <<idle_ms, poll_interval_ms, idle_threshold, poll_sleep,
                   rx_buffer, waiting, now, payload, total, exit_status,
                   raised, port>>
    /\ UNCHANGED envVars
    /\ UNCHANGED logVars

\* line 111: time.sleep(poll_sleep)
Sleep ==
    /\ pc = "sleep"
    /\ pc' = "poll"
    /\ UNCHANGED progVars
    /\ UNCHANGED <<exit_status, raised, port>>
    /\ UNCHANGED envVars
    /\ UNCHANGED logVars

\* ---- main: the ways out of the loop -------------------------------------
\* lines 89, 91, 50, 59: a port call raises serial.SerialException, which no
\* handler of lines 49-52 or 112 catches; control goes to the finally clause
Fault ==
    /\ pc \in {"poll", "read", "write", "flush"}
    /\ pc = "write" => LoopCond(total, payload)
    /\ writeArg' = IF pc = "write" THEN WriteArg(payload, total) ELSE writeArg
    /\ flushLog' = IF pc = "flush" THEN Append(flushLog, total) ELSE flushLog
    /\ raised' = "SerialException"
    /\ pc' = AfterFault
    /\ UNCHANGED progVars
    /\ UNCHANGED <<exit_status, port>>
    /\ UNCHANGED envVars
    /\ UNCHANGED <<readLog, sinceEcho, acked, echoes>>

\* line 112: KeyboardInterrupt at any statement of the try block
Interrupt ==
    /\ pc \in LoopPcs
    /\ pc' = "interrupted"
    /\ UNCHANGED progVars
    /\ UNCHANGED <<exit_status, raised, port>>
    /\ UNCHANGED envVars
    /\ UNCHANGED logVars

\* line 113: the handler
Stopping ==
    /\ pc = "interrupted"
    /\ pc' = "close"
    /\ UNCHANGED progVars
    /\ UNCHANGED <<exit_status, raised, port>>
    /\ UNCHANGED envVars
    /\ UNCHANGED logVars

\* lines 114-117: serial_port.close(); return 0 unless an exception propagates
Close ==
    /\ pc = "close"
    /\ port' = "closed"
    /\ exit_status' = ExitStatus(raised)
    /\ pc' = "done"
    /\ UNCHANGED progVars
    /\ UNCHANGED <<raised>>
    /\ UNCHANGED envVars
    /\ UNCHANGED logVars

\* ---- the environment ----------------------------------------------------
\* time.monotonic() advances
Tick ==
    /\ pc \in LoopPcs
    /\ clock < MaxTime
    /\ clock' = clock + 1
    /\ UNCHANGED <<pc, exit_status, raised, port, inq, sent>>
    /\ UNCHANGED progVars
    /\ UNCHANGED logVars

\* the peer transmits its next byte, which the driver queues
Arrive ==
    /\ pc \in LoopPcs
    /\ sent < MaxBytes
    /\ sent' = sent + 1
    /\ inq' = Append(inq, sent + 1)
    /\ UNCHANGED <<pc, exit_status, raised, port, clock>>
    /\ UNCHANGED progVars
    /\ UNCHANGED logVars

Next ==
    \/ Open
    \/ OpenFail
    \/ Poll
    \/ Read
    \/ IdleCheck
    \/ Settle
    \/ WriteAccept
    \/ WriteZero
    \/ Backoff
    \/ WriteDone
    \/ Flush
    \/ PrintEcho
    \/ ClearBuffer
    \/ ClearTimestamp
    \/ Sleep
    \/ Fault
    \/ Interrupt
    \/ Stopping
    \/ Close
    \/ Tick
    \/ Arrive

Spec == Init /\ [][Next]_vars

\* The interpreter keeps executing the thread, and the transport's write
\* accepts at least one byte infinitely often while it is being retried.
FairSpec ==
    /\ Spec
    /\ SF_vars(WriteAccept)
    /\ WF_vars(Backoff)
    /\ WF_vars(WriteDone)
    /\ WF_vars(Flush)

\* The interpreter keeps executing the thread, the clock keeps advancing (up
\* to MaxTime), and the transport's write accepts at least one byte infinitely
\* often while it is being retried.  Interrupt and Fault stay possible.
LiveSpec ==
    /\ Spec
    /\ WF_vars(Poll)
    /\ WF_vars(Read)
    /\ WF_vars(IdleCheck)
    /\ WF_vars(Settle)
    /\ SF_vars(WriteAccept)
    /\ WF_vars(Backoff)
    /\ WF_vars(WriteDone)
    /\ WF_vars(Flush)
    /\ WF_vars(PrintEcho)
    /\ WF_vars(ClearBuffer)
    /\ WF_vars(ClearTimestamp)
    /\ WF_vars(Sleep)
    /\ WF_vars(Tick)

\* ---- properties ---------------------------------------------------------
\* A step of the program (not of the clock or the peer) that stays in the loop.
LoopStep == pc' # pc /\ pc' \notin StopPcs

\* C1: while Reliable Write runs, the payload it was handed is exactly the
\* bytes read from the transport, in the order read, since the previous
\* Reliable Write returned (since startup for the first one).
C1_PayloadIsChunksSinceLastEcho ==
    pc \in WriteAllPcs => payload = sinceEcho

\* C1 witness: a second write-back is running, with a payload of several bytes.
C1_Witness ==
    /\ pc = "write"
    /\ echoes # <<>>
    /\ Len(payload) >= 2
    /\ payload = sinceEcho

\* C2: whenever a write-back has begun, the idle time the engine measured at
\* that poll, now - last_rx_ts, is at least idle_threshold.
C2_NoEchoBeforeThreshold ==
    pc \in {"settle", "write", "backoff", "flush", "print", "clear"} =>
        /\ last_rx_ts # None
        /\ now - last_rx_ts >= idle_threshold

\* C2 witness: a write-back begun with a positive threshold exactly reached.
C2_Witness ==
    /\ pc = "write"
    /\ idle_threshold = MaxIdleMs
    /\ now - last_rx_ts = idle_threshold

\* C3 as claimed: every poll cycle that meets a non-empty buffer whose idle
\* time has reached the threshold either echoes or resets the idle clock.
C3_DueCycleEchoesOrResets ==
    [][(/\ pc \in {"read", "idle"}
        /\ rx_buffer # <<>>
        /\ last_rx_ts # None
        /\ clock - last_rx_ts >= idle_threshold
        /\ LoopStep)
       => (pc' = "settle" \/ last_rx_ts' = clock)]_vars

\* C3 as amended: a poll cycle that finds nothing available and meets a
\* non-empty buffer whose idle time has reached the threshold starts the
\* write-back of the whole buffer; a cycle that finds bytes available resets
\* the idle clock when its read returns a byte, and changes neither the buffer
\* nor the idle clock when its read returns none.
C3_IdleCycleEchoesWhenDue ==
    /\ [][(/\ pc = "idle"
           /\ rx_buffer # <<>>
           /\ last_rx_ts # None
           /\ clock - last_rx_ts >= idle_threshold
           /\ LoopStep)
          => (pc' = "settle" /\ payload' = rx_buffer)]_vars
    /\ [][(pc = "read" /\ LoopStep /\ readLog' # readLog)
          => (pc' = "poll" /\ last_rx_ts' = clock)]_vars
    /\ [][(pc = "read" /\ LoopStep /\ readLog' = readLog)
          => (pc' = "poll" /\ UNCHANGED <<rx_buffer, last_rx_ts>>)]_vars

\* C3 witness: a write-back begun at the moment the idle time equals a
\* positive threshold.
C3_Witness ==
    /\ pc = "settle"
    /\ idle_threshold >= 1
    /\ now - last_rx_ts = idle_threshold
    /\ payload = rx_buffer

\* C4: write and flush are only reached with a non-empty buffer, which the
\* payload equals; nothing is written back before the first byte is read.
C4_EmptyBufferNeverEchoes ==
    pc \in {"settle", "write", "backoff", "flush", "print", "clear"} =>
        /\ rx_buffer # <<>>
        /\ payload = rx_buffer
        /\ readLog # <<>>

\* C4 witness: nothing was ever read, the idle test ran at the last clock
\* value, and the engine went on to the poll sleep.
C4_Witness ==
    /\ pc = "sleep"
    /\ readLog = <<>>
    /\ rx_buffer = <<>>
    /\ now = MaxTime
    /\ echoes = <<>>

\* C5: at every statement of the loop but the one between the two clearing
\* statements, last_rx_ts is set exactly when rx_buffer is non-empty.
C5_TimestampIffBuffer ==
    pc \in LoopPcs \ {"clear_ts"} => (last_rx_ts # None <=> rx_buffer # <<>>)

\* C5 witness: a cycle whose read returned nothing although bytes were
\* reported available, with nothing read before it.
C5_Witness ==
    /\ pc = "poll"
    /\ waiting > 0
    /\ readLog = <<>>
    /\ rx_buffer = <<>>
    /\ last_rx_ts = None

\* A step in which _write_all calls port.write: the call acknowledges bytes,
\* acknowledges none, or raises.
WriteCall ==
    /\ pc = "write"
    /\ LoopCond(total, payload)
    /\ pc' \in {"write", "backoff", "close"}
    /\ (pc' = "write" => total' # total)

\* C6: the bytes the transport has acknowledged are always the first total
\* bytes of the payload, every port.write call is given exactly the bytes not
\* yet acknowledged, and when Reliable Write has returned the acknowledged
\* bytes are the payload.
C6_AckedIsPayloadInOrder ==
    /\ [](pc \in WriteAllPcs \cup {"print"} =>
            /\ total <= Len(payload)
            /\ acked = Take(payload, total))
    /\ [](pc = "print" => acked = payload)
    /\ [][WriteCall => acked \o writeArg' = payload]_vars

\* C6 witness: a write that acknowledged nothing after part of a payload
\* longer than one call can take was acknowledged.
C6_Witness ==
    /\ pc = "backoff"
    /\ Len(payload) > MaxAccept
    /\ 0 < total
    /\ total < Len(payload)
    /\ acked = Take(payload, total)
    /\ writeArg = Drop(payload, total)

\* C7: no flush while Reliable Write is still writing; the flush call is made
\* with every payload byte acknowledged; once Reliable Write has returned it
\* has flushed exactly once.
C7_FlushOnceAfterAllWritten ==
    /\ [](pc \in WriteAllPcs => flushLog = <<>>)
    /\ [](pc \in {"print", "clear", "clear_ts"} => flushLog = <<Len(payload)>>)
    /\ [][flushLog' # flushLog /\ pc = "flush"
          => (flushLog = <<>> /\ total = Len(payload) /\ acked = payload)]_vars

\* C7 witness: Reliable Write has returned from a payload that took more than
\* one write call, with its one flush logged.
C7_Witness ==
    /\ pc = "clear"
    /\ Len(payload) > MaxAccept
    /\ flushLog = <<Len(payload)>>

\* C8: Reliable Write has returned only with total = len(payload), and, the
\* transport accepting a byte infinitely often, a running Reliable Write
\* returns unless the process is interrupted or the port fails.
C8_WriteAllTotal ==
    /\ [](pc = "print" => total = Len(payload))
    /\ (pc \in {"write", "backoff"}) ~> (pc \in {"print"} \cup StopPcs)

\* C8 witness: Reliable Write has returned the full length of a payload
\* longer than one call can take.
C8_Witness ==
    /\ pc = "print"
    /\ total = Len(payload)
    /\ total > MaxAccept

\* C9: a write-back is only ever under way in a cycle whose poll reported
\* nothing available.
C9_IngestionFirst ==
    pc \in WriteBackPcs => waiting = 0

\* C9 witness: the poll reported bytes available while the buffer was
\* non-empty and the idle threshold had elapsed, and the read branch is taken.
C9_Witness ==
    /\ pc = "read"
    /\ waiting > 0
    /\ rx_buffer # <<>>
    /\ idle_threshold >= 1
    /\ clock - last_rx_ts >= idle_threshold

\* C10: with --idle-ms zero or negative the threshold is zero, and a cycle
\* that finds nothing available and a non-empty buffer starts the write-back.
C10_ZeroThresholdEchoesAtOnce ==
    /\ [](pc \in LoopPcs /\ idle_ms <= 0 => idle_threshold = 0)
    /\ [][(pc = "idle" /\ idle_ms <= 0 /\ rx_buffer # <<>> /\ LoopStep)
          => (pc' = "settle" /\ payload' = rx_buffer)]_vars

\* C10 witness: a negative --idle-ms, and a write-back begun with no time
\* elapsed since the last byte was read.
C10_Witness ==
    /\ pc = "settle"
    /\ idle_ms < 0
    /\ now = last_rx_ts
    /\ payload = rx_buffer

\* The statements of the loop outside a write-back's writing and clearing.
PollingPcs == {"poll", "read", "idle", "settle", "sleep"}

\* C11: while Reliable Write runs nothing is read and the payload and the
\* buffer do not change; the bytes acknowledged are a prefix of this payload;
\* and whenever the engine is polling or about to start a write-back, the
\* previous write-back (if any) was acknowledged in full and flushed.
C11_ContiguousEcho ==
    /\ [][(pc \in WriteAllPcs)
          => UNCHANGED <<readLog, rx_buffer, payload>>]_vars
    /\ [](pc \in WriteAllPcs => acked = Take(payload, Len(acked)))
    /\ [](pc \in PollingPcs =>
            \/ echoes = <<>> /\ acked = <<>> /\ flushLog = <<>>
            \/ /\ echoes # <<>>
               /\ acked = echoes[Len(echoes)]
               /\ flushLog = <<Len(acked)>>)

\* C11 witness: a second payload is part written, after the first one's echo.
C11_Witness ==
    /\ pc = "write"
    /\ echoes # <<>>
    /\ 0 < Len(acked)
    /\ Len(acked) < Len(payload)
    /\ flushLog = <<>>

\* C12: the loop is only left to the KeyboardInterrupt handler or to the
\* finally clause, from which the only continuation is close(); a run that
\* entered the loop ends with the port closed; after close() the port is not
\* read, written or flushed.
C12_ClosedOnEveryWayOut ==
    /\ [](pc \in LoopPcs \cup {"interrupted", "close"} => port = "open")
    /\ [][(pc \in LoopPcs /\ pc' \notin LoopPcs)
          => pc' \in {"interrupted", "close"}]_vars
    /\ [][(pc = "interrupted") => pc' = "close"]_vars
    /\ [][(pc = "close") => (pc' = "done" /\ port' = "closed")]_vars
    /\ [](pc = "done" /\ exit_status # "failure" => port = "closed")
    /\ [][(port = "closed")
          => UNCHANGED <<port, inq, readLog, acked, writeArg, flushLog>>]_vars

\* C12 witness: the port failed in the middle of a Reliable Write and the
\* port was closed.
C12_Witness ==
    /\ pc = "done"
    /\ port = "closed"
    /\ raised = "SerialException"
    /\ 0 < Len(acked)
    /\ Len(acked) < Len(payload)

\* C13: the success status is only returned with the port closed and no
\* exception propagating, and it is what the run returns after a
\* KeyboardInterrupt; the failure status is only returned with the port never
\* opened and nothing read, written, flushed or echoed; a run in which a port
\* call raised never ends with the success status.
C13_ExitStatus ==
    /\ [](exit_status = "success" =>
            pc = "done" /\ port = "closed" /\ raised = "none")
    /\ [](pc = "interrupted" => raised = "none")
    /\ [][(pc = "interrupted") => (pc' = "close" /\ raised' = "none")]_vars
    /\ [][(pc = "close" /\ raised = "none") => exit_status' = "success"]_vars
    /\ [](exit_status = "failure" =>
            /\ pc = "done"
            /\ port = "unopened"
            /\ readLog = <<>> /\ rx_buffer = <<>>
            /\ writeArg = <<>> /\ acked = <<>> /\ flushLog = <<>>
            /\ echoes = <<>>)
    /\ [](raised = "SerialException" => exit_status \in {"none", "exception"})
    /\ [](pc = "done" <=> exit_status # "none")

\* C13 witness: a run cancelled after one echo, with bytes read since, has
\* returned the success status.
C13_Witness ==
    /\ exit_status = "success"
    /\ port = "closed"
    /\ echoes # <<>>
    /\ rx_buffer # <<>>
    /\ pc = "done"

\* C14: port.write is never called while the transport holds unread bytes:
\* an echo whose idle test has passed is deferred when the peer resumes
\* during the settling delay or between the retries of Reliable Write.
C14_NoWriteWhileBytesAvailable ==
    [][WriteCall => inq = <<>>]_vars

\* C15: rx_buffer changes only by a read appending the bytes it returned, or
\* by line 107 emptying it after a Reliable Write that acknowledged and
\* flushed all of it; line 108 follows, and the cycle after a write-back
\* starts with an empty buffer and no timestamp.
C15_BufferAppendedOrCleared ==
    /\ [][(rx_buffer' # rx_buffer) =>
            \/ /\ pc = "read"
               /\ readLog' # readLog
               /\ rx_buffer' = rx_buffer \o Drop(readLog', Len(readLog))
            \/ /\ pc = "clear"
               /\ rx_buffer' = <<>>
               /\ payload = rx_buffer
               /\ acked = rx_buffer
               /\ flushLog = <<Len(rx_buffer)>>]_vars
    /\ [][(pc = "clear" /\ LoopStep)
          => (pc' = "clear_ts" /\ rx_buffer' = <<>>)]_vars
    /\ [][(pc = "clear_ts" /\ LoopStep)
          => (/\ pc' \in {"poll", "sleep"}
              /\ rx_buffer' = <<>>
              /\ last_rx_ts' = None)]_vars

\* C15 witness: a write-back has just completed, the buffer and the timestamp
\* are cleared, and bytes that arrived meanwhile wait in the transport.
C15_Witness ==
    /\ pc \in {"poll", "sleep"}
    /\ echoes # <<>>
    /\ rx_buffer = <<>>
    /\ last_rx_ts = None
    /\ inq # <<>>
    /\ flushLog = <<Len(payload)>>

\* C16: Reliable Write is left only by returning, with the whole payload
\* acknowledged and flushed, or by the process ending (KeyboardInterrupt or a
\* port fault); an ended process does nothing more; and the engine is never
\* back at its polling statements with a payload part written.
C16_NoMidPayloadAbort ==
    /\ [][(pc \in WriteAllPcs /\ pc' \notin WriteAllPcs) =>
            \/ /\ pc' = "print"
               /\ total = Len(payload)
               /\ acked = payload
               /\ flushLog' = <<Len(payload)>>
            \/ pc' \in {"interrupted", "close"}]_vars
    /\ [][(pc \in StopPcs)
          => (pc' \in StopPcs /\ UNCHANGED <<progVars, logVars, inq>>)]_vars
    /\ [](pc \in PollingPcs /\ acked # <<>> =>
            /\ total = Len(acked)
            /\ flushLog = <<total>>
            /\ echoes # <<>>
            /\ echoes[Len(echoes)] = acked)

\* C16 witness: a KeyboardInterrupt arrived with a payload part written, and
\* the process has ended with the rest unwritten.
C16_Witness ==
    /\ pc = "done"
    /\ exit_status = "success"
    /\ 0 < Len(acked)
    /\ Len(acked) < Len(payload)
    /\ flushLog = <<>>

\* C17: a write that acknowledged nothing (0, None or a timeout) leads to the
\* backoff and back to the write with total, the acknowledged bytes and the
\* payload unchanged and no exception raised; the write is otherwise left
\* only with a SerialException propagating to the finally clause, and once
\* one propagates the loop is over and the run does not end in success.
C17_TransientRetriedFatalNot ==
    /\ [][(pc = "write" /\ pc' = "backoff")
          => UNCHANGED <<total, acked, payload, raised>>]_vars
    /\ [][(pc = "backoff" /\ LoopStep)
          => (pc' = "write" /\ UNCHANGED <<total, acked, payload, raised>>)]_vars
    /\ [][(pc = "write" /\ pc' \notin {"write", "backoff", "flush", "interrupted"})
          => (pc' = "close" /\ raised' = "SerialException")]_vars
    /\ [](raised = "SerialException" => pc \in {"close", "done"})
    /\ [][(raised = "SerialException")
          => (raised' = raised /\ exit_status' \in {"none", "exception"})]_vars

\* C17 witness: after part of the payload was acknowledged a write
\* acknowledged nothing, and the loop is back at the write with the same total.
C17_Witness ==
    /\ pc = "write"
    /\ 0 < total
    /\ total < Len(payload)
    /\ writeArg = Drop(payload, total)
    /\ acked = Take(payload, total)
    /\ raised = "none"

\* Byte b is in sequence s.
InSeq(b, s) == \E i \in 1 .. Len(s) : s[i] = b

\* Byte b is in the payload of a printed echo record.
Echoed(b) == \E i \in 1 .. Len(echoes) : InSeq(b, echoes[i])

\* Every byte read so far is in a printed echo record.
AllReadEchoed == \A i \in 1 .. Len(readLog) : Echoed(readLog[i])

\* C18: if the buffer is non-empty, the transport reports nothing available
\* from now on and the clock can still reach last_rx_ts + idle_threshold,
\* then eventually every byte read has been echoed and the buffer is empty,
\* unless the process is interrupted or the port fails.
C18_BufferEventuallyEchoed ==
    []((/\ pc \in LoopPcs
        /\ rx_buffer # <<>>
        /\ last_rx_ts + idle_threshold <= MaxTime
        /\ [](inq = <<>>))
       => <>((rx_buffer = <<>> /\ AllReadEchoed) \/ pc \in StopPcs))

\* C18 witness: the echo of a buffer of several bytes, read after an earlier
\* echo, has completed and the buffer is empty.
C18_Witness ==
    /\ pc = "clear_ts"
    /\ Len(echoes) = 2
    /\ Len(echoes[2]) >= 2
    /\ rx_buffer = <<>>
    /\ inq = <<>>

\* C19: an idle test that does not start a write-back leaves the buffer and
\* the timestamp unchanged; the timestamp changes only when a read returns
\* bytes or when line 108 clears it after a completed write-back; so the idle
\* time the test measures is the clock's distance from the last ingestion,
\* and successive measurements never decrease and grow as the clock does.
C19_IdleClockOnlyResetByIngestOrEcho ==
    /\ [][(pc = "idle" /\ LoopStep /\ pc' # "settle")
          => (/\ pc' \in {"poll", "sleep"}
              /\ UNCHANGED <<rx_buffer, last_rx_ts>>)]_vars
    /\ [][(last_rx_ts' # last_rx_ts) =>
            \/ pc = "read" /\ readLog' # readLog /\ last_rx_ts' = clock
            \/ /\ pc = "clear_ts"
               /\ last_rx_ts' = None
               /\ flushLog = <<Len(payload)>>]_vars
    /\ [][(pc = "idle" /\ LoopStep /\ last_rx_ts # None)
          => (/\ now' - last_rx_ts' = clock - last_rx_ts
              /\ now' >= now
              /\ (clock > now <=> now' - last_rx_ts' > now - last_rx_ts))]_vars

\* C19 witness: an idle test measured a positive idle time below the
\* threshold and left the buffer to the next cycle.
C19_Witness ==
    /\ pc \in {"poll", "sleep"}
    /\ waiting = 0
    /\ rx_buffer # <<>>
    /\ last_rx_ts # None
    /\ now > last_rx_ts
    /\ now - last_rx_ts < idle_threshold

\* The concatenation of a sequence of sequences.
RECURSIVE Flatten(_)
Flatten(ss) == IF ss = <<>> THEN <<>> ELSE Head(ss) \o Flatten(Tail(ss))

\* The bytes the peer has sent, in order.
SentSoFar == [i \in 1 .. sent |-> i]

\* The echoed payloads followed by the buffer are the bytes read.
Conserved == Flatten(echoes) \o rx_buffer = readLog

\* The record of the latest echo is printed and line 107 has not run yet.
RecordedNotYetCleared ==
    /\ echoes # <<>>
    /\ rx_buffer = echoes[Len(echoes)]
    /\ Flatten(echoes) = readLog

\* C20: the bytes read are exactly the payloads echoed so far followed by the
\* buffer (an echo counting from line 107, where its bytes leave the buffer),
\* the bytes the peer sent are exactly the bytes read followed by those still
\* queued in the transport, and during a write-back the payload is the buffer,
\* so bytes arriving meanwhile are neither in it nor dropped.
C20_NoByteLostOrDuplicated ==
    /\ pc \in LoopPcs \ {"clear"} => Conserved
    /\ pc = "clear" => RecordedNotYetCleared
    /\ pc \in StopPcs => (Conserved \/ RecordedNotYetCleared)
    /\ readLog \o inq = SentSoFar
    /\ pc \in {"settle", "write", "backoff", "flush", "print", "clear"} =>
          /\ payload = rx_buffer
          /\ \A i \in 1 .. Len(inq) : ~InSeq(inq[i], payload)

\* C20 witness: after an earlier echo a payload is being written while a
\* byte that arrived since the idle test waits in the transport.
C20_Witness ==
    /\ pc = "write"
    /\ echoes # <<>>
    /\ 0 < total
    /\ inq # <<>>
    /\ Flatten(echoes) \o payload = readLog

====
